---- MODULE Spec2Model ----
(***************************************************************************)
(* A model of quant/data.py of thenextquant: the kline, asset, asset       *)
(* snapshot and order stores built on the MongoDBBase primitives insert,   *)
(* find_one, get_list and update.                                          *)
(*                                                                         *)
(* Text is modelled as a sequence of one-character strings, so that        *)
(* str.split, str.lower and str.format are computed and not assumed.       *)
(* A document is a function from field names to values.  A collection is   *)
(* the sequence of its documents in insertion (natural) order.             *)
(***************************************************************************)
EXTENDS Integers, Sequences, FiniteSets, TLC

\* ------------------------------------------------------------------ bounds
MaxKlines == 2          \* documents over all kline partitions
MaxTs == 2              \* kline timestamps are 0..MaxTs
MaxOrders == 2          \* documents of the order collection
MaxAssets == 2          \* documents of the asset collection
MaxSnapshots == 2       \* documents of the snapshot collection
MaxTicks == 2           \* how far the clock advances past Now0
MaxDocs == 2            \* documents over all collections when the four stores run together
ResolutionCap == 3      \* the count of partition resolutions saturates here

\* Python's None, for the optional integer arguments (ts, start, end).
None == -1

\* Python truthiness of an optional integer: None and 0 are both falsy.
Truthy(x) == x # None /\ x # 0

VARIABLES
    k_to_c,         \* KLineData._k_to_c of each KLineData object: symbol -> cursor
    resolutions,    \* how often each object resolved self._conn[db][collection] for a symbol
    klineStore,     \* the kline collections: cursor -> sequence of documents
    assetStore,     \* collection asset.asset
    snapStore,      \* collection asset.snapshot
    orderStore,     \* collection strategy.order
    nextId,         \* the store's next document identifier / creation stamp
    now,            \* the clock read by tools.get_cur_timestamp()
    call,           \* the last operation called, with its arguments
    ret             \* what it returned: raised, value (documents), n (id or count)

vars == <<k_to_c, resolutions, klineStore, assetStore, snapStore, orderStore,
          nextId, now, call, ret>>

\* ------------------------------------------------------------------ text
Slash == "/"

LowerOf ==
    ("E" :> "e") @@ ("T" :> "t") @@ ("H" :> "h") @@ ("B" :> "b") @@
    ("C" :> "c") @@ ("U" :> "u") @@ ("S" :> "s") @@ ("D" :> "d")

\* str.lower()
lower(s) == [k \in 1..Len(s) |-> IF s[k] \in DOMAIN LowerOf THEN LowerOf[s[k]] ELSE s[k]]

\* str.split(sep): the parts between the separators, always at least one part
RECURSIVE split(_, _)
split(s, sep) ==
    IF \E k \in 1..Len(s) : s[k] = sep
    THEN LET k == CHOOSE j \in 1..Len(s) : s[j] = sep /\ \A m \in 1..(j - 1) : s[m] # sep
         IN  <<SubSeq(s, 1, k - 1)>> \o split(SubSeq(s, k + 1, Len(s)), sep)
    ELSE <<s>>

\* "kline_{x}_{y}".format(x=x.lower(), y=y.lower())
CollectionNameRaw(x, y) == <<"k", "l", "i", "n", "e", "_">> \o x \o <<"_">> \o y

CollectionName(x, y) == <<"k", "l", "i", "n", "e", "_">> \o lower(x) \o <<"_">> \o lower(y)

\* ------------------------------------------------------------------ inputs
ETH_BTC == <<"E", "T", "H", "/", "B", "T", "C">>
eth_btc == <<"e", "t", "h", "/", "b", "t", "c">>
BTC_USD == <<"B", "T", "C", "/", "U", "S", "D">>
EmptySymbol == <<>>
ETHBTC == <<"E", "T", "H", "B", "T", "C">>
ETH_BTC_USD == <<"E", "T", "H", "/", "B", "T", "C", "/", "U", "S", "D">>

WellFormed == {ETH_BTC, eth_btc, BTC_USD}
Malformed == {EmptySymbol, ETHBTC, ETH_BTC_USD}
Symbols == WellFormed \cup Malformed

\* Two KLineData objects of one process, one per exchange platform.
Instances == {1, 2}
PlatformOf == (1 :> "binance") @@ (2 :> "okex")

Timestamps == 0..MaxTs

\* the clock at the start: more than a day of milliseconds after the epoch
Now0 == 86400 * 1000 + 86400 + 10
Candle == [o |-> 10, h |-> 40, l |-> 5, c |-> 20]

\* ------------------------------------------------------------------ the document store
NoCursor == <<>>

\* self._conn[db][collection]
Cursor(db, collection) == <<db, collection>>

Cursors ==
    { Cursor(PlatformOf[i], CollectionName(split(s, Slash)[1], split(s, Slash)[2])) :
        i \in Instances, s \in WellFormed }

\* One condition of a query: {field: value} or {field: {"$gte": v}} / {"$lte": v}
Eq(f, v) == [field |-> f, op |-> "$eq", val |-> v]
Gte(f, v) == [field |-> f, op |-> "$gte", val |-> v]
Gt(f, v) == [field |-> f, op |-> "$gt", val |-> v]
Lte(f, v) == [field |-> f, op |-> "$lte", val |-> v]

Holds(doc, cond) ==
    /\ cond.field \in DOMAIN doc
    /\ CASE cond.op = "$eq" -> doc[cond.field] = cond.val
         [] cond.op = "$gte" -> doc[cond.field] >= cond.val
         [] cond.op = "$gt" -> doc[cond.field] > cond.val
         [] cond.op = "$lte" -> doc[cond.field] <= cond.val

\* A query (a sequence of conditions) matches a document when all of them hold.
Matches(doc, spec) == \A k \in 1..Len(spec) : Holds(doc, spec[k])

\* A projection that excludes the named fields.
Project(doc, excluded) == [f \in (DOMAIN doc) \ excluded |-> doc[f]]

NoSort == <<>>
Asc == 1
Desc == -1

\* Stable sort of documents on one field: sort = <<field, Asc or Desc>>.
RECURSIVE SortDocs(_, _)
SortDocs(docs, sort) ==
    IF Len(sort) = 0 \/ Len(docs) = 0 THEN docs
    ELSE LET d == docs[Len(docs)]
             sorted == SortDocs(SubSeq(docs, 1, Len(docs) - 1), sort)
             stays(x) == IF sort[2] = Asc THEN x[sort[1]] <= d[sort[1]]
                                          ELSE x[sort[1]] >= d[sort[1]]
             k == Cardinality({j \in 1..Len(sorted) : stays(sorted[j])})
         IN  SubSeq(sorted, 1, k) \o <<d>> \o SubSeq(sorted, k + 1, Len(sorted))

Select(coll, spec) == SelectSeq(coll, LAMBDA d : Matches(d, spec))

\* insert(doc, partition): the store stamps the identifier and the bookkeeping fields
Insert(coll, data, id) ==
    Append(coll, data @@ ("_id" :> id) @@ ("create_time" :> id) @@ ("update_time" :> id))

\* findOne(filter, sort, projection, partition): first match, or absent (<<>>)
FindOne(coll, spec, sort, excluded) ==
    LET m == SortDocs(Select(coll, spec), sort)
    IN  IF Len(m) = 0 THEN <<>> ELSE <<Project(m[1], excluded)>>

\* findMany(filter, projection, sort, partition)
GetList(coll, spec, sort, excluded) ==
    LET m == SortDocs(Select(coll, spec), sort)
    IN  [k \in 1..Len(m) |-> Project(m[k], excluded)]

\* the fields a query fixes by equality
EqFields(spec) ==
    LET eqs == {k \in 1..Len(spec) : spec[k].op = "$eq"}
    IN  [f \in {spec[k].field : k \in eqs} |->
            spec[CHOOSE k \in eqs : spec[k].field = f].val]

\* update(filter, setFields, unsetFields, upsert, partition) on the first match:
\* the new collection, the count of documents affected, and whether a document
\* was created.  The store rejects an update that sets and unsets one field.
Update(coll, spec, setFields, unsetNames, upsert, id) ==
    LET hits == {k \in 1..Len(coll) : Matches(coll[k], spec)}
    IN  IF (DOMAIN setFields) \cap unsetNames # {}
        THEN [raised |-> TRUE, coll |-> coll, n |-> 0, created |-> FALSE]
        ELSE IF hits # {}
        THEN LET k == CHOOSE j \in hits : \A m \in hits : j <= m
             IN  [raised |-> FALSE,
                  coll |-> [coll EXCEPT ![k] = Project(setFields @@ @, unsetNames)],
                  n |-> 1, created |-> FALSE]
        ELSE IF upsert
        THEN [raised |-> FALSE,
              coll |-> Append(coll, Project(setFields @@ EqFields(spec) @@ ("_id" :> id),
                                            unsetNames)),
              n |-> 0, created |-> TRUE]
        ELSE [raised |-> FALSE, coll |-> coll, n |-> 0, created |-> FALSE]

Returned(value, n) == [raised |-> FALSE, value |-> value, n |-> n]
Raised == [raised |-> TRUE, value |-> <<>>, n |-> 0]

\* ------------------------------------------------------------------ KLineData
RECURSIVE SumLen(_, _)
SumLen(store, cs) ==
    IF cs = {} THEN 0
    ELSE LET c == CHOOSE x \in cs : TRUE IN Len(store[c]) + SumLen(store, cs \ {c})

KlineCount == SumLen(klineStore, Cursors)

Bump(n) == IF n < ResolutionCap THEN n + 1 ELSE n

\* The router without line 139: the resolved cursor is never stored.
GetCursorNoCache(i, symbol) ==
    LET parts == split(symbol, Slash)
    IN  IF Len(parts) # 2
        THEN [raised |-> TRUE, cursor |-> NoCursor, cache |-> k_to_c, resolved |-> resolutions]
        ELSE [raised |-> FALSE,
              cursor |-> Cursor(PlatformOf[i], CollectionName(parts[1], parts[2])),
              cache |-> k_to_c,
              resolved |-> [resolutions EXCEPT ![i][symbol] = Bump(@)]]

\* The router taking the first two parts of the split, whatever their number.
GetCursorFirstTwo(i, symbol) ==
    LET cached == k_to_c[i][symbol]
        parts == split(symbol, Slash)
    IN  IF cached # NoCursor
        THEN [raised |-> FALSE, cursor |-> cached, cache |-> k_to_c, resolved |-> resolutions]
        ELSE IF Len(parts) < 2
        THEN [raised |-> TRUE, cursor |-> NoCursor, cache |-> k_to_c, resolved |-> resolutions]
        ELSE LET cursor == Cursor(PlatformOf[i], CollectionName(parts[1], parts[2]))
             IN  [raised |-> FALSE, cursor |-> cursor,
                  cache |-> [k_to_c EXCEPT ![i][symbol] = cursor],
                  resolved |-> [resolutions EXCEPT ![i][symbol] = Bump(@)]]

\* The router with a cache that is not keyed by the symbol: any cursor the
\* object has cached is handed out.
GetCursorAnyCached(i, symbol) ==
    LET hit == {s \in Symbols : k_to_c[i][s] # NoCursor}
        parts == split(symbol, Slash)
    IN  IF hit # {}
        THEN [raised |-> FALSE, cursor |-> k_to_c[i][CHOOSE s \in hit : TRUE],
              cache |-> k_to_c, resolved |-> resolutions]
        ELSE IF Len(parts) # 2
        THEN [raised |-> TRUE, cursor |-> NoCursor, cache |-> k_to_c, resolved |-> resolutions]
        ELSE LET cursor == Cursor(PlatformOf[i], CollectionName(parts[1], parts[2]))
             IN  [raised |-> FALSE, cursor |-> cursor,
                  cache |-> [k_to_c EXCEPT ![i][symbol] = cursor],
                  resolved |-> [resolutions EXCEPT ![i][symbol] = Bump(@)]]

\* KLineData._get_kline_cursor_by_symbol, as the object self = i runs it: the
\* cursor, or raised when unpacking symbol.split("/") into x, y fails, with the
\* cache and the resolution count it leaves behind.
_get_kline_cursor_by_symbol(i, symbol) ==
    LET cached == k_to_c[i][symbol]
        parts == split(symbol, Slash)
    IN  IF cached # NoCursor
        THEN [raised |-> FALSE, cursor |-> cached, cache |-> k_to_c, resolved |-> resolutions]
        ELSE IF Len(parts) # 2
        THEN [raised |-> TRUE, cursor |-> NoCursor, cache |-> k_to_c, resolved |-> resolutions]
        ELSE LET cursor == Cursor(PlatformOf[i], CollectionName(parts[1], parts[2]))
             IN  [raised |-> FALSE, cursor |-> cursor,
                  cache |-> [k_to_c EXCEPT ![i][symbol] = cursor],
                  resolved |-> [resolutions EXCEPT ![i][symbol] = Bump(@)]]

\* create_new_kline storing high under "l" and low under "h"
CreateNewKlineSwapped(i, symbol, open, high, low, close, timestamp) ==
    LET r == _get_kline_cursor_by_symbol(i, symbol)
        data == [o |-> open, h |-> low, l |-> high, c |-> close, t |-> timestamp]
    IN  /\ call' = [op |-> "create_new_kline", self |-> i, symbol |-> symbol,
                    open |-> open, high |-> high, low |-> low, close |-> close,
                    timestamp |-> timestamp]
        /\ k_to_c' = r.cache
        /\ resolutions' = r.resolved
        /\ IF r.raised
           THEN /\ ret' = Raised
                /\ UNCHANGED <<klineStore, nextId>>
           ELSE /\ KlineCount < MaxKlines
                /\ klineStore' = [klineStore EXCEPT ![r.cursor] = Insert(@, data, nextId)]
                /\ nextId' = nextId + 1
                /\ ret' = Returned(<<>>, nextId)
        /\ UNCHANGED <<assetStore, snapStore, orderStore, now>>

create_new_kline(i, symbol, open, high, low, close, timestamp) ==
    LET r == _get_kline_cursor_by_symbol(i, symbol)
        data == [o |-> open, h |-> high, l |-> low, c |-> close, t |-> timestamp]
    IN  /\ call' = [op |-> "create_new_kline", self |-> i, symbol |-> symbol,
                    open |-> open, high |-> high, low |-> low, close |-> close,
                    timestamp |-> timestamp]
        /\ k_to_c' = r.cache
        /\ resolutions' = r.resolved
        /\ IF r.raised
           THEN /\ ret' = Raised
                /\ UNCHANGED <<klineStore, nextId>>
           ELSE /\ KlineCount < MaxKlines
                /\ klineStore' = [klineStore EXCEPT ![r.cursor] = Insert(@, data, nextId)]
                /\ nextId' = nextId + 1
                /\ ret' = Returned(<<>>, nextId)
        /\ UNCHANGED <<assetStore, snapStore, orderStore, now>>

KlineAtTsSpec(ts) == IF Truthy(ts) THEN <<Lte("t", ts)>> ELSE <<>>

get_kline_at_ts(i, symbol, ts) ==
    LET r == _get_kline_cursor_by_symbol(i, symbol)
    IN  /\ call' = [op |-> "get_kline_at_ts", self |-> i, symbol |-> symbol, ts |-> ts]
        /\ k_to_c' = r.cache
        /\ resolutions' = r.resolved
        /\ ret' = IF r.raised THEN Raised
                  ELSE Returned(FindOne(klineStore[r.cursor], KlineAtTsSpec(ts),
                                        <<"t", Desc>>, {}), 0)
        /\ UNCHANGED <<klineStore, nextId, assetStore, snapStore, orderStore, now>>

\* get_latest_kline_by_symbol sorting on the record's own timestamp
GetLatestKlineByTimestamp(i, symbol) ==
    LET r == _get_kline_cursor_by_symbol(i, symbol)
    IN  /\ call' = [op |-> "get_latest_kline_by_symbol", self |-> i, symbol |-> symbol]
        /\ k_to_c' = r.cache
        /\ resolutions' = r.resolved
        /\ ret' = IF r.raised THEN Raised
                  ELSE Returned(FindOne(klineStore[r.cursor], <<>>, <<"t", Desc>>, {}), 0)
        /\ UNCHANGED <<klineStore, nextId, assetStore, snapStore, orderStore, now>>

get_latest_kline_by_symbol(i, symbol) ==
    LET r == _get_kline_cursor_by_symbol(i, symbol)
    IN  /\ call' = [op |-> "get_latest_kline_by_symbol", self |-> i, symbol |-> symbol]
        /\ k_to_c' = r.cache
        /\ resolutions' = r.resolved
        /\ ret' = IF r.raised THEN Raised
                  ELSE Returned(FindOne(klineStore[r.cursor], <<>>,
                                        <<"create_time", Desc>>, {}), 0)
        /\ UNCHANGED <<klineStore, nextId, assetStore, snapStore, orderStore, now>>

KlineBetweenTsGt(cursor, start, end) ==
    GetList(klineStore[cursor], <<Gt("t", start), Lte("t", end)>>, <<"t", Asc>>,
            {"create_time", "update_time"})

\* the query of get_kline_between_ts on the partition behind cursor
KlineBetweenTs(cursor, start, end) ==
    GetList(klineStore[cursor], <<Gte("t", start), Lte("t", end)>>, <<"t", Asc>>,
            {"create_time", "update_time"})

get_kline_between_ts(i, symbol, start, end) ==
    LET r == _get_kline_cursor_by_symbol(i, symbol)
    IN  /\ call' = [op |-> "get_kline_between_ts", self |-> i, symbol |-> symbol,
                    start |-> start, end |-> end]
        /\ k_to_c' = r.cache
        /\ resolutions' = r.resolved
        /\ ret' = IF r.raised THEN Raised
                  ELSE Returned(KlineBetweenTs(r.cursor, start, end), 0)
        /\ UNCHANGED <<klineStore, nextId, assetStore, snapStore, orderStore, now>>


\* ------------------------------------------------------------------ AssetData
Range(seq) == {seq[k] : k \in 1..Len(seq)}

\* the optional list argument delete: omitted (None) or a list of currency names
Omitted == [given |-> FALSE, keys |-> <<>>]
Given(keys) == [given |-> TRUE, keys |-> keys]

\* Python truthiness of an optional list: None and [] are both falsy.
TruthyList(d) == d.given /\ Len(d.keys) > 0

\* d = {"platform": .., "account": .., "timestamp": ..}; d[key] = value for the asset
AssetDoc(platform, account, asset, timestamp) ==
    asset @@ [platform |-> platform, account |-> account, timestamp |-> timestamp]

AssetKey(platform, account, timestamp) ==
    <<Eq("platform", platform), Eq("account", account), Eq("timestamp", timestamp)>>

AssetData_create_new_asset(platform, account, asset, timestamp) ==
    /\ Len(assetStore) < MaxAssets
    /\ call' = [op |-> "create_new_asset", platform |-> platform, account |-> account,
                asset |-> asset, timestamp |-> timestamp]
    /\ assetStore' = Insert(assetStore, AssetDoc(platform, account, asset, timestamp), nextId)
    /\ nextId' = nextId + 1
    /\ ret' = Returned(<<>>, nextId)
    /\ UNCHANGED <<k_to_c, resolutions, klineStore, snapStore, orderStore, now>>

\* update_asset written with insert in place of the upserting update
UpdateAssetByInsert(platform, account, asset, timestamp, delete) ==
    [raised |-> FALSE,
     coll |-> Append(assetStore, AssetDoc(platform, account, asset, timestamp) @@ ("_id" :> nextId)),
     n |-> 0, created |-> TRUE]

\* update_asset whose filter leaves the timestamp out
UpdateAssetAnyTimestamp(platform, account, asset, timestamp, delete) ==
    Update(assetStore, <<Eq("platform", platform), Eq("account", account)>>, asset,
           IF TruthyList(delete) THEN Range(delete.keys) ELSE {}, TRUE, nextId)

\* the update that update_asset asks of the store
UpdateAsset(platform, account, asset, timestamp, delete) ==
    Update(assetStore, AssetKey(platform, account, timestamp), asset,
           IF TruthyList(delete) THEN Range(delete.keys) ELSE {}, TRUE, nextId)

update_asset(platform, account, asset, timestamp, delete) ==
    LET u == UpdateAsset(platform, account, asset, timestamp, delete)
    IN  /\ Len(u.coll) <= MaxAssets
        /\ call' = [op |-> "update_asset", platform |-> platform, account |-> account,
                    asset |-> asset, timestamp |-> timestamp, delete |-> delete]
        /\ assetStore' = u.coll
        /\ nextId' = IF u.created THEN nextId + 1 ELSE nextId
        /\ ret' = IF u.raised THEN Raised ELSE Returned(<<>>, u.n)
        /\ UNCHANGED <<k_to_c, resolutions, klineStore, snapStore, orderStore, now>>

\* get_latest_asset taking the first document in insertion order (no sort)
GetLatestAssetUnsorted(platform, account) ==
    LET asset == FindOne(assetStore, <<Eq("platform", platform), Eq("account", account)>>,
                         NoSort, {"create_time", "update_time"})
    IN  /\ call' = [op |-> "get_latest_asset", platform |-> platform, account |-> account]
        /\ ret' = Returned(IF Len(asset) > 0 THEN <<Project(asset[1], {"_id"})>> ELSE asset, 0)
        /\ UNCHANGED <<k_to_c, resolutions, klineStore, assetStore, snapStore, orderStore,
                       nextId, now>>

get_latest_asset(platform, account) ==
    LET asset == FindOne(assetStore, <<Eq("platform", platform), Eq("account", account)>>,
                         <<"timestamp", Desc>>, {"create_time", "update_time"})
    IN  /\ call' = [op |-> "get_latest_asset", platform |-> platform, account |-> account]
        /\ ret' = Returned(IF Len(asset) > 0 THEN <<Project(asset[1], {"_id"})>> ELSE asset, 0)
        /\ UNCHANGED <<k_to_c, resolutions, klineStore, assetStore, snapStore, orderStore,
                       nextId, now>>

\* ------------------------------------------------------------------ AssetSnapshotData
\* 60 * 60 * 24, the default look-back of get_asset_snapshot
Day == 60 * 60 * 24

\* the snapshot create written as the merging update of AssetData.update_asset
SnapshotCreateMerging(platform, account, asset, timestamp) ==
    LET u == Update(snapStore, AssetKey(platform, account, timestamp), asset, {}, TRUE, nextId)
    IN  /\ Len(snapStore) < MaxSnapshots
        /\ call' = [op |-> "snapshot_create_new_asset", platform |-> platform,
                    account |-> account, asset |-> asset, timestamp |-> timestamp]
        /\ snapStore' = u.coll
        /\ nextId' = nextId + 1
        /\ ret' = Returned(<<>>, nextId)
        /\ UNCHANGED <<k_to_c, resolutions, klineStore, assetStore, orderStore, now>>

AssetSnapshotData_create_new_asset(platform, account, asset, timestamp) ==
    /\ Len(snapStore) < MaxSnapshots
    /\ call' = [op |-> "snapshot_create_new_asset", platform |-> platform,
                account |-> account, asset |-> asset, timestamp |-> timestamp]
    /\ snapStore' = Insert(snapStore, AssetDoc(platform, account, asset, timestamp), nextId)
    /\ nextId' = nextId + 1
    /\ ret' = Returned(<<>>, nextId)
    /\ UNCHANGED <<k_to_c, resolutions, klineStore, assetStore, orderStore, now>>

\* end and start as get_asset_snapshot uses them after applying the defaults
SnapshotEnd(end) == IF ~Truthy(end) THEN now ELSE end
SnapshotStart(start, end) == IF ~Truthy(start) THEN SnapshotEnd(end) - Day ELSE start

get_asset_snapshot(platform, account, start, end) ==
    LET e == SnapshotEnd(end)
        b == SnapshotStart(start, end)
        spec == <<Eq("platform", platform), Eq("account", account),
                  Gte("timestamp", b), Lte("timestamp", e)>>
    IN  /\ call' = [op |-> "get_asset_snapshot", platform |-> platform, account |-> account,
                    start |-> start, end |-> end]
        /\ ret' = Returned(GetList(snapStore, spec, NoSort,
                                   {"platform", "account", "update_time"}), 0)
        /\ UNCHANGED <<k_to_c, resolutions, klineStore, assetStore, snapStore, orderStore,
                       nextId, now>>

get_latest_asset_snapshot(platform, account) ==
    LET asset == FindOne(snapStore, <<Eq("platform", platform), Eq("account", account)>>,
                         <<"timestamp", Desc>>, {})
    IN  /\ call' = [op |-> "get_latest_asset_snapshot", platform |-> platform,
                    account |-> account]
        /\ ret' = Returned(IF Len(asset) > 0 THEN <<Project(asset[1], {"_id"})>> ELSE asset, 0)
        /\ UNCHANGED <<k_to_c, resolutions, klineStore, assetStore, snapStore, orderStore,
                       nextId, now>>

\* ------------------------------------------------------------------ OrderData
OrderDoc(order) ==
    ("p" :> order.platform) @@ ("a" :> order.account) @@ ("s" :> order.strategy) @@
    ("S" :> order.symbol) @@ ("n" :> order.order_no) @@ ("A" :> order.action) @@
    ("t" :> order.order_type) @@ ("st" :> order.status) @@ ("pr" :> order.price) @@
    ("ap" :> order.avg_price) @@ ("q" :> order.quantity) @@ ("r" :> order.remain) @@
    ("T" :> order.trade_type) @@ ("ct" :> order.ctime) @@ ("ut" :> order.utime)

create_new_order(order) ==
    /\ Len(orderStore) < MaxOrders
    /\ call' = [op |-> "create_new_order", order |-> order]
    /\ orderStore' = Insert(orderStore, OrderDoc(order), nextId)
    /\ nextId' = nextId + 1
    /\ ret' = Returned(<<>>, nextId)
    /\ UNCHANGED <<k_to_c, resolutions, klineStore, assetStore, snapStore, now>>

\* get_order_by_no treating "no such order" as an error
GetOrderByNoOrRaise(platform, order_no) ==
    LET data == FindOne(orderStore, <<Eq("p", platform), Eq("n", order_no)>>, NoSort, {})
    IN  /\ call' = [op |-> "get_order_by_no", platform |-> platform, order_no |-> order_no]
        /\ ret' = IF Len(data) = 0 THEN Raised ELSE Returned(data, 0)
        /\ UNCHANGED <<k_to_c, resolutions, klineStore, assetStore, snapStore, orderStore,
                       nextId, now>>

get_order_by_no(platform, order_no) ==
    /\ call' = [op |-> "get_order_by_no", platform |-> platform, order_no |-> order_no]
    /\ ret' = Returned(FindOne(orderStore, <<Eq("p", platform), Eq("n", order_no)>>,
                               NoSort, {}), 0)
    /\ UNCHANGED <<k_to_c, resolutions, klineStore, assetStore, snapStore, orderStore,
                   nextId, now>>

\* update_fields = {"s": order.status, "r": order.remain}
OrderUpdateFields(order) == ("s" :> order.status) @@ ("r" :> order.remain)

\* update_order_infos asking the store for an upsert
UpdateOrderUpsert(order) ==
    LET u == Update(orderStore, <<Eq("p", order.platform), Eq("n", order.order_no)>>,
                    OrderUpdateFields(order), {}, TRUE, nextId)
    IN  /\ call' = [op |-> "update_order_infos", order |-> order]
        /\ orderStore' = u.coll
        /\ ret' = Returned(<<>>, u.n)
        /\ UNCHANGED <<k_to_c, resolutions, klineStore, assetStore, snapStore, nextId, now>>

update_order_infos(order) ==
    LET u == Update(orderStore, <<Eq("p", order.platform), Eq("n", order.order_no)>>,
                    OrderUpdateFields(order), {}, FALSE, nextId)
    IN  /\ call' = [op |-> "update_order_infos", order |-> order]
        /\ orderStore' = u.coll
        /\ ret' = Returned(<<>>, u.n)
        /\ UNCHANGED <<k_to_c, resolutions, klineStore, assetStore, snapStore, nextId, now>>

get_latest_order(platform, symbol) ==
    /\ call' = [op |-> "get_latest_order", platform |-> platform, symbol |-> symbol]
    /\ ret' = Returned(FindOne(orderStore, <<Eq("p", platform), Eq("S", symbol)>>,
                               <<"ut", Desc>>, {}), 0)
    /\ UNCHANGED <<k_to_c, resolutions, klineStore, assetStore, snapStore, orderStore,
                   nextId, now>>

\* tools.get_cur_timestamp() moves on between calls
Tick ==
    /\ now < Now0 + MaxTicks
    /\ now' = now + 1
    /\ call' = [op |-> "tick"]
    /\ ret' = Returned(<<>>, 0)
    /\ UNCHANGED <<k_to_c, resolutions, klineStore, assetStore, snapStore, orderStore, nextId>>

\* ------------------------------------------------------------------ specifications
Init ==
    /\ k_to_c = [i \in Instances |-> [s \in Symbols |-> NoCursor]]
    /\ resolutions = [i \in Instances |-> [s \in Symbols |-> 0]]
    /\ klineStore = [c \in Cursors |-> <<>>]
    /\ assetStore = <<>>
    /\ snapStore = <<>>
    /\ orderStore = <<>>
    /\ nextId = 1
    /\ now = Now0
    /\ call = [op |-> "none"]
    /\ ret = Returned(<<>>, 0)

\* The time-series store as one KLineData object uses it.
KlineSymbols == {ETH_BTC, BTC_USD, ETHBTC}

NextKline ==
    \/ \E s \in KlineSymbols, t \in Timestamps :
          create_new_kline(1, s, Candle.o, Candle.h, Candle.l, Candle.c, t)
    \/ \E s \in KlineSymbols, ts \in Timestamps \cup {None} : get_kline_at_ts(1, s, ts)
    \/ \E s \in KlineSymbols : get_latest_kline_by_symbol(1, s)
    \/ \E s \in KlineSymbols, a \in Timestamps, b \in Timestamps :
          get_kline_between_ts(1, s, a, b)

SpecKline == Init /\ [][NextKline]_vars

\* The partition router as the KLineData objects of one process use it.
RouterTs == {1}

RouterSymbols == {ETH_BTC, BTC_USD} \cup Malformed

NextRouter ==
    \/ \E i \in Instances, s \in RouterSymbols, t \in RouterTs :
          create_new_kline(i, s, Candle.o, Candle.h, Candle.l, Candle.c, t)
    \/ \E i \in Instances, s \in RouterSymbols, ts \in RouterTs :
          get_kline_at_ts(i, s, ts)
    \/ \E i \in Instances, s \in RouterSymbols : get_latest_kline_by_symbol(i, s)
    \/ \E i \in Instances, s \in RouterSymbols, a \in RouterTs, b \in RouterTs :
          get_kline_between_ts(i, s, a, b)

SpecRouter == Init /\ [][NextRouter]_vars

\* The order store.
Placed(no, price) ==
    [platform |-> "binance", account |-> "a@x.com", strategy |-> "grid",
     symbol |-> "ETH/BTC", order_no |-> no, action |-> "BUY", order_type |-> "LIMIT",
     status |-> "new", price |-> price, avg_price |-> 0, quantity |-> 5, remain |-> 5,
     trade_type |-> 0, ctime |-> 1000, utime |-> 1000]

\* the in-memory order at a later time: every field may have moved on
Progressed(platform, no, status, remain) ==
    [platform |-> platform, account |-> "b@x.com", strategy |-> "trend",
     symbol |-> "BTC/USD", order_no |-> no, action |-> "SELL", order_type |-> "MARKET",
     status |-> status, price |-> 999, avg_price |-> 101, quantity |-> 6, remain |-> remain,
     trade_type |-> 1, ctime |-> 1001, utime |-> 2000]

OrderNos == {"N1", "N2"}
NewOrders == {Placed(no, price) : no \in OrderNos, price \in {100, 250}}
LaterOrders ==
    {Progressed(p, no, st, r) :
        p \in {"binance", "okex"}, no \in OrderNos, st \in {"new", "filled"}, r \in {5, 0}}

NextOrder ==
    \/ \E order \in NewOrders : create_new_order(order)
    \/ \E order \in LaterOrders : update_order_infos(order)
    \/ \E p \in {"binance", "okex"}, no \in OrderNos : get_order_by_no(p, no)
    \/ \E p \in {"binance", "okex"} : get_latest_order(p, "ETH/BTC")

SpecOrder == Init /\ [][NextOrder]_vars

\* The current-asset store.
B1 == [free |-> "1", locked |-> "0", total |-> "1"]
B2 == [free |-> "2", locked |-> "1", total |-> "3"]

Assets == { ("BTC" :> B1), ("BTC" :> B2) @@ ("ETH" :> B1) }
Deletes == { Omitted, Given(<<"ETH">>) }
AssetKeys == { <<"binance", "a@x.com", 1000>>, <<"binance", "a@x.com", 2000>>,
               <<"okex", "a@x.com", 1000>> }

NextAsset ==
    \/ \E k \in AssetKeys, asset \in Assets :
          AssetData_create_new_asset(k[1], k[2], asset, k[3])
    \/ \E k \in AssetKeys, asset \in Assets, delete \in Deletes :
          update_asset(k[1], k[2], asset, k[3], delete)
    \/ \E k \in AssetKeys : get_latest_asset(k[1], k[2])

SpecAsset == Init /\ [][NextAsset]_vars

\* The snapshot store and its clock.
DayMs == 86400 * 1000
SnapshotTimes == {Now0 - DayMs + 5, Now0 - Day, Now0 + 1}
SnapshotBounds == {None, 0, Now0 - DayMs, Now0}
SnapshotAssets == { ("BTC" :> B1), ("BTC" :> B2) @@ ("ETH" :> B1) }
SnapshotPlatforms == {"binance", "okex"}

NextSnapshot ==
    \/ \E p \in SnapshotPlatforms, asset \in SnapshotAssets, t \in SnapshotTimes :
          AssetSnapshotData_create_new_asset(p, "a@x.com", asset, t)
    \/ \E p \in SnapshotPlatforms, a \in SnapshotBounds, b \in SnapshotBounds :
          get_asset_snapshot(p, "a@x.com", a, b)
    \/ \E p \in SnapshotPlatforms : get_latest_asset_snapshot(p, "a@x.com")
    \/ Tick

SpecSnapshot == Init /\ [][NextSnapshot]_vars

\* The four stores of the layer in one process.
LayerPlatforms == {"binance", "okex"}
LayerAssets == { ("BTC" :> B1), ("BTC" :> B2) @@ ("ETH" :> B1) }

NextLayer ==
    \/ /\ nextId <= MaxDocs
       /\ create_new_kline(1, BTC_USD, Candle.o, Candle.h, Candle.l, Candle.c, 1)
    \/ \E ts \in {None, 1} : get_kline_at_ts(1, BTC_USD, ts)
    \/ get_latest_kline_by_symbol(1, BTC_USD)
    \/ get_kline_between_ts(1, BTC_USD, 0, 1)
    \/ /\ nextId <= MaxDocs
       /\ \E asset \in LayerAssets :
             AssetData_create_new_asset("binance", "a@x.com", asset, 1000)
    \/ /\ update_asset("binance", "a@x.com", ("BTC" :> B1), 1000, Given(<<"ETH">>))
       /\ nextId' <= MaxDocs + 1
    \/ \E p \in LayerPlatforms : get_latest_asset(p, "a@x.com")
    \/ /\ nextId <= MaxDocs
       /\ \E asset \in LayerAssets :
             AssetSnapshotData_create_new_asset("binance", "a@x.com", asset, Now0)
    \/ \E p \in LayerPlatforms : get_asset_snapshot(p, "a@x.com", None, None)
    \/ \E p \in LayerPlatforms : get_latest_asset_snapshot(p, "a@x.com")
    \/ /\ nextId <= MaxDocs
       /\ create_new_order(Placed("N1", 100))
    \/ update_order_infos(Progressed("binance", "N1", "filled", 0))
    \/ \E p \in LayerPlatforms, no \in OrderNos : get_order_by_no(p, no)
    \/ \E p \in LayerPlatforms, sym \in {"ETH/BTC", "BTC/USD"} : get_latest_order(p, sym)

SpecLayer == Init /\ [][NextLayer]_vars

\* The kline partitions as the symbols of one KLineData object address them.
PartitionSymbols == {ETH_BTC, eth_btc, BTC_USD}
PartitionTs == {1, 2}

NextPartition ==
    \/ \E s \in PartitionSymbols, t \in PartitionTs :
          create_new_kline(1, s, Candle.o, Candle.h, Candle.l, Candle.c, t)
    \/ \E s \in PartitionSymbols, ts \in PartitionTs : get_kline_at_ts(1, s, ts)
    \/ \E s \in PartitionSymbols : get_latest_kline_by_symbol(1, s)
    \/ \E s \in PartitionSymbols, a \in PartitionTs, b \in PartitionTs :
          get_kline_between_ts(1, s, a, b)

SpecPartition == Init /\ [][NextPartition]_vars

\* ------------------------------------------------------------------ claims: kline
KlineOps == {"create_new_kline", "get_kline_at_ts", "get_latest_kline_by_symbol",
             "get_kline_between_ts"}

\* the partition the last kline call worked on
CallPartition == klineStore[k_to_c[call.self][call.symbol]]

SepCount(s) == Cardinality({k \in 1..Len(s) : s[k] = Slash})

\* C4 (as claimed): for every given ts, 0 included, get_kline_at_ts returns no
\* record with t > ts; it returns a record with the greatest t <= ts when there
\* is one and nothing when there is none.
C4_AsOfAtMostTs ==
    (call.op = "get_kline_at_ts" /\ ~ret.raised /\ call.ts # None) =>
        LET part == CallPartition
            qual == {k \in 1..Len(part) : part[k].t <= call.ts}
        IN  /\ qual = {} => ret.value = <<>>
            /\ qual # {} =>
                  /\ Len(ret.value) = 1
                  /\ ret.value[1].t <= call.ts
                  /\ \A k \in qual : part[k].t <= ret.value[1].t

\* C5: get_kline_between_ts returns exactly the records of the partition with
\* start <= t <= end, each once, in non-decreasing order of t, without the
\* create_time and update_time fields; an empty list when none is in range.
C5_RangeExact ==
    (call.op = "get_kline_between_ts" /\ ~ret.raised) =>
        LET part == CallPartition
            inRange == {k \in 1..Len(part) : call.start <= part[k].t /\ part[k].t <= call.end}
            kept == {"_id", "o", "h", "l", "c", "t"}
        IN  /\ Len(ret.value) = Cardinality(inRange)
            /\ {ret.value[j] : j \in 1..Len(ret.value)} =
                  {[f \in kept |-> part[k][f]] : k \in inRange}
            /\ \A j \in 1..(Len(ret.value) - 1) : ret.value[j].t <= ret.value[j + 1].t

\* a range read that returns two records in the reverse of their insertion
\* order and leaves a third record out
C5_Witness ==
    /\ call.op = "get_kline_between_ts"
    /\ ~ret.raised
    /\ Len(ret.value) = 2
    /\ ret.value[1].t < ret.value[2].t
    /\ ret.value[1]["_id"] > ret.value[2]["_id"]

\* C6 (as claimed): the cache is process-wide: over all KLineData objects the
\* partition of a symbol is resolved at most once, every resolution of the
\* symbol yields one handle, and a cache entry never changes once written.
C6_ProcessWideCache ==
    [][\A s \in Symbols :
          /\ resolutions'[1][s] + resolutions'[2][s] <= 1
          /\ \A i, j \in Instances :
                (k_to_c'[i][s] # NoCursor /\ k_to_c'[j][s] # NoCursor)
                    => k_to_c'[i][s] = k_to_c'[j][s]
          /\ \A i \in Instances :
                k_to_c[i][s] # NoCursor => k_to_c'[i][s] = k_to_c[i][s]]_vars

\* C6 (amended): the cache belongs to one KLineData object: each object
\* resolves the partition of a symbol at most once, resolving it again yields
\* the same handle, and an entry of its cache never changes once written.
C6_PerObjectCache ==
    [][\A i \in Instances, s \in Symbols :
          /\ resolutions'[i][s] <= 1
          /\ k_to_c[i][s] # NoCursor => k_to_c'[i][s] = k_to_c[i][s]
          /\ (call'.op \in KlineOps /\ call'.self = i /\ call'.symbol = s
                /\ ~_get_kline_cursor_by_symbol(i, s).raised) =>
                (_get_kline_cursor_by_symbol(i, s).cursor)'
                    = _get_kline_cursor_by_symbol(i, s).cursor]_vars

\* both objects have resolved BTC/USD once and the first has used it twice
C6_Witness ==
    /\ resolutions[1][BTC_USD] = 1
    /\ resolutions[2][BTC_USD] = 1
    /\ k_to_c[1][BTC_USD] # NoCursor
    /\ Len(klineStore[k_to_c[1][BTC_USD]]) >= 2

\* C7: a kline operation fails exactly when the symbol does not hold exactly
\* one separator (the empty symbol and a symbol without separator included),
\* and a failed operation leaves the cache and every partition as they were.
C7_MalformedSymbolFails ==
    [][call'.op \in KlineOps =>
          /\ ret'.raised <=> SepCount(call'.symbol) # 1
          /\ ret'.raised =>
                /\ k_to_c' = k_to_c
                /\ klineStore' = klineStore
                /\ resolutions' = resolutions
                /\ nextId' = nextId]_vars

\* an insert under a symbol of two separators has failed on a store with a record
C7_Witness ==
    /\ call.op = "create_new_kline"
    /\ call.symbol = ETH_BTC_USD
    /\ ret.raised
    /\ KlineCount > 0

kline_eth_btc == <<"k", "l", "i", "n", "e", "_", "e", "t", "h", "_", "b", "t", "c">>
kline_btc_usd == <<"k", "l", "i", "n", "e", "_", "b", "t", "c", "_", "u", "s", "d">>

\* C8: the partition of BASE/QUOTE is named kline_<base>_<quote> in lower
\* case: kline_eth_btc for ETH/BTC, kline_btc_usd for BTC/USD.
C8_PartitionName ==
    \A i \in Instances :
        /\ k_to_c[i][ETH_BTC] # NoCursor => k_to_c[i][ETH_BTC] = <<PlatformOf[i], kline_eth_btc>>
        /\ k_to_c[i][BTC_USD] # NoCursor => k_to_c[i][BTC_USD] = <<PlatformOf[i], kline_btc_usd>>

\* one object has resolved both ETH/BTC and BTC/USD
C8_Witness ==
    /\ k_to_c[1][ETH_BTC] # NoCursor
    /\ k_to_c[1][BTC_USD] # NoCursor

\* ------------------------------------------------------------------ claims: orders
\* the first stored order with the platform and order number of the last call
FirstOrderOf(order) ==
    CHOOSE k \in 1..Len(orderStore) :
        /\ orderStore[k]["p"] = order.platform /\ orderStore[k]["n"] = order.order_no
        /\ \A m \in 1..(k - 1) :
              ~(orderStore[m]["p"] = order.platform /\ orderStore[m]["n"] = order.order_no)

\* C1 (as claimed): after update_order_infos(order) on a stored order of the
\* same platform and order number, the stored status field ("st") equals
\* order.status and the stored remaining quantity ("r") equals order.remain.
C1_StatusAndRemainStored ==
    (call.op = "update_order_infos" /\ ret.n > 0) =>
        LET doc == orderStore[FirstOrderOf(call.order)]
        IN  doc["st"] = call.order.status /\ doc["r"] = call.order.remain

\* C2 (as claimed): update_order_infos changes no stored field other than the
\* status ("st") and the remaining quantity ("r"): every other field of every
\* stored order keeps the value create_new_order wrote.
C2_OnlyStatusAndRemainChange ==
    [][call'.op = "update_order_infos" =>
          /\ Len(orderStore') = Len(orderStore)
          /\ \A k \in 1..Len(orderStore) :
                /\ DOMAIN orderStore'[k] = DOMAIN orderStore[k]
                /\ \A f \in (DOMAIN orderStore[k]) \ {"st", "r"} :
                      orderStore'[k][f] = orderStore[k][f]]_vars

\* ------------------------------------------------------------------ claims: snapshots
\* C3 (as claimed): with neither start nor end given, get_asset_snapshot uses
\* the window [now - 86400000, now]: it returns the snapshots of the
\* (platform, account) whose timestamp lies in that window, and only those.
C3_DefaultWindowIsOneDayOfMs ==
    (call.op = "get_asset_snapshot" /\ call.start = None /\ call.end = None) =>
        {ret.value[j]["_id"] : j \in 1..Len(ret.value)} =
            {snapStore[k]["_id"] : k \in
                {m \in 1..Len(snapStore) :
                    /\ snapStore[m].platform = call.platform
                    /\ snapStore[m].account = call.account
                    /\ now - DayMs <= snapStore[m].timestamp
                    /\ snapStore[m].timestamp <= now}}

\* ------------------------------------------------------------------ claims: assets
Currencies == {"BTC", "ETH"}

HasKey(doc, c) ==
    doc.platform = c.platform /\ doc.account = c.account /\ doc.timestamp = c.timestamp

\* what update_asset(c) must have done in a step from store to store2
MergedAsAsked(c, store, store2) ==
    LET hits == {k \in 1..Len(store) : HasKey(store[k], c)}
        removed == Range(c.delete.keys)
    IN  IF hits # {}
        THEN LET k == CHOOSE j \in hits : \A m \in hits : j <= m
             IN  /\ Len(store2) = Len(store)
                 /\ \A j \in 1..Len(store) : j # k => store2[j] = store[j]
                 /\ HasKey(store2[k], c)
                 /\ \A cur \in DOMAIN c.asset :
                       cur \in DOMAIN store2[k] /\ store2[k][cur] = c.asset[cur]
                 /\ \A cur \in removed : cur \notin DOMAIN store2[k]
                 /\ \A f \in (DOMAIN store[k]) \ ((DOMAIN c.asset) \cup removed) :
                       f \in DOMAIN store2[k] /\ store2[k][f] = store[k][f]
                 /\ DOMAIN store2[k] \subseteq (DOMAIN store[k]) \cup (DOMAIN c.asset)
        ELSE /\ Len(store2) = Len(store) + 1
             /\ \A j \in 1..Len(store) : store2[j] = store[j]
             /\ HasKey(store2[Len(store2)], c)
             /\ (DOMAIN store2[Len(store2)]) \cap Currencies = DOMAIN c.asset
             /\ \A cur \in DOMAIN c.asset : store2[Len(store2)][cur] = c.asset[cur]

\* C9: update_asset called again with the arguments of the update_asset call
\* just before it leaves the asset collection as that first call left it; in
\* particular it creates no second document.
C9_MergeIdempotent ==
    [][(call.op = "update_asset" /\ call'.op = "update_asset" /\ call' = call)
          => assetStore' = assetStore]_vars

\* the only document ever written was created by an update_asset, and the
\* update_asset just made found it and asked for the balances it already has
C9_Witness ==
    /\ call.op = "update_asset"
    /\ ~ret.raised
    /\ ret.n = 1
    /\ nextId = 2
    /\ Len(assetStore) = 1
    /\ "create_time" \notin DOMAIN assetStore[1]
    /\ (DOMAIN assetStore[1]) \cap Currencies = DOMAIN call.asset
    /\ \A cur \in DOMAIN call.asset : assetStore[1][cur] = call.asset[cur]

\* C10 (as claimed): update_asset acts on the document of exactly the given
\* (platform, account, timestamp): afterwards every currency of asset has the
\* given value, every currency of delete is absent and every other field is
\* unchanged; with no such document exactly one is created with the key and
\* the given balances; every other document is unchanged.
C10_MergeAsAsked ==
    [][call'.op = "update_asset" => MergedAsAsked(call', assetStore, assetStore')]_vars

\* C10 (amended): the same, for calls in which no currency is both in asset
\* and in delete.
C10_MergeAsAskedDisjoint ==
    [][(call'.op = "update_asset"
          /\ (DOMAIN call'.asset) \cap Range(call'.delete.keys) = {})
          => MergedAsAsked(call', assetStore, assetStore')]_vars

\* an update_asset has set BTC and removed ETH on a document that had ETH,
\* next to a document of another key
C10_Witness ==
    /\ call.op = "update_asset"
    /\ ~ret.raised
    /\ call.delete = Given(<<"ETH">>)
    /\ "BTC" \in DOMAIN call.asset
    /\ Len(assetStore) = 2
    /\ HasKey(assetStore[1], call)
    /\ ~HasKey(assetStore[2], call)
    /\ "ETH" \notin DOMAIN assetStore[1]
    /\ "create_time" \in DOMAIN assetStore[1]

\* ------------------------------------------------------------------ claims: latest reads
\* C11: get_latest_asset returns a document of exactly the given (platform,
\* account) whose timestamp is the greatest among the stored documents of that
\* (platform, account), whatever the order of the writes, without the fields
\* create_time, update_time and _id; it is a stored document otherwise.
C11_LatestAssetHasMaxTimestamp ==
    (call.op = "get_latest_asset") =>
        LET own == {k \in 1..Len(assetStore) :
                        /\ assetStore[k].platform = call.platform
                        /\ assetStore[k].account = call.account}
        IN  /\ ~ret.raised
            /\ own = {} => ret.value = <<>>
            /\ own # {} =>
                  /\ Len(ret.value) = 1
                  /\ ret.value[1].platform = call.platform
                  /\ ret.value[1].account = call.account
                  /\ \A k \in own : assetStore[k].timestamp <= ret.value[1].timestamp
                  /\ (DOMAIN ret.value[1]) \cap {"_id", "create_time", "update_time"} = {}
                  /\ \E k \in own :
                        /\ DOMAIN ret.value[1] =
                              (DOMAIN assetStore[k]) \ {"_id", "create_time", "update_time"}
                        /\ \A f \in DOMAIN ret.value[1] : ret.value[1][f] = assetStore[k][f]

\* the newer document was written first and the older one after it, and the
\* read returned the newer one
C11_Witness ==
    /\ call.op = "get_latest_asset"
    /\ Len(assetStore) = 2
    /\ assetStore[1].platform = call.platform
    /\ assetStore[2].platform = call.platform
    /\ assetStore[1].timestamp > assetStore[2].timestamp
    /\ Len(ret.value) = 1
    /\ ret.value[1].timestamp = assetStore[1].timestamp

NoneOf(store, f1, v1, f2, v2) ==
    \A k \in 1..Len(store) : ~(store[k][f1] = v1 /\ store[k][f2] = v2)

\* C13: a read that finds nothing returns the absent marker and raises
\* nothing: get_kline_at_ts and get_latest_kline_by_symbol on an empty
\* partition, get_latest_asset and get_latest_asset_snapshot for a (platform,
\* account) without document, get_order_by_no for a (platform, order number)
\* never inserted, get_latest_order for a (platform, symbol) without order.
C13_AbsenceIsNotAnError ==
    /\ (call.op \in {"get_kline_at_ts", "get_latest_kline_by_symbol"}
          /\ call.symbol = BTC_USD
          /\ Len(klineStore[Cursor(PlatformOf[call.self], kline_btc_usd)]) = 0)
          => (~ret.raised /\ ret.value = <<>>)
    /\ (call.op = "get_latest_asset"
          /\ NoneOf(assetStore, "platform", call.platform, "account", call.account))
          => (~ret.raised /\ ret.value = <<>>)
    /\ (call.op = "get_latest_asset_snapshot"
          /\ NoneOf(snapStore, "platform", call.platform, "account", call.account))
          => (~ret.raised /\ ret.value = <<>>)
    /\ (call.op = "get_order_by_no"
          /\ NoneOf(orderStore, "p", call.platform, "n", call.order_no))
          => (~ret.raised /\ ret.value = <<>>)
    /\ (call.op = "get_latest_order"
          /\ NoneOf(orderStore, "p", call.platform, "S", call.symbol))
          => (~ret.raised /\ ret.value = <<>>)

\* an order is stored, and get_order_by_no for another (platform, order
\* number) has returned absent
C13_Witness ==
    /\ call.op = "get_order_by_no"
    /\ Len(orderStore) > 0
    /\ NoneOf(orderStore, "p", call.platform, "n", call.order_no)
    /\ ~ret.raised
    /\ ret.value = <<>>

\* ------------------------------------------------------------------ claims: history logs
\* coll2 is coll1 with exactly one document appended
OneAppended(coll1, coll2) ==
    /\ Len(coll2) = Len(coll1) + 1
    /\ SubSeq(coll2, 1, Len(coll1)) = coll1

\* the fields of doc other than the store's bookkeeping are exactly those of data
HoldsExactly(doc, data) ==
    /\ DOMAIN doc \ {"_id", "create_time", "update_time"} = DOMAIN data
    /\ \A f \in DOMAIN data : doc[f] = data[f]

\* C14: AssetSnapshotData.create_new_asset always inserts: every call appends
\* one document holding the given platform, account, timestamp and balances
\* (so n calls leave n documents, also with one (platform, account,
\* timestamp)), and no step of any operation of the layer changes or removes
\* a snapshot document.
C14_SnapshotAlwaysInserts ==
    [][ IF call'.op = "snapshot_create_new_asset"
        THEN /\ OneAppended(snapStore, snapStore')
             /\ HoldsExactly(snapStore'[Len(snapStore')],
                             AssetDoc(call'.platform, call'.account, call'.asset,
                                      call'.timestamp))
        ELSE snapStore' = snapStore ]_vars

\* two snapshots of one (platform, account, timestamp) are stored as two documents
C14_Witness ==
    /\ call.op = "snapshot_create_new_asset"
    /\ Len(snapStore) = 2
    /\ snapStore[1].platform = snapStore[2].platform
    /\ snapStore[1].account = snapStore[2].account
    /\ snapStore[1].timestamp = snapStore[2].timestamp
    /\ snapStore[1]["_id"] # snapStore[2]["_id"]

\* C15: at most one stored order document has any given (platform, order
\* number), after any sequence of create_new_order and update_order_infos.
C15_OrderKeyUnique ==
    \A j, k \in 1..Len(orderStore) :
        (orderStore[j].p = orderStore[k].p /\ orderStore[j].n = orderStore[k].n) => j = k

\* C16: create_new_kline appends exactly one record {o, h, l, c, t} with the
\* given values to the partition of its symbol and changes no record already
\* stored, in that partition or another; get_kline_at_ts,
\* get_latest_kline_by_symbol and get_kline_between_ts (and a create_new_kline
\* that fails) leave every partition as it was.
C16_KlineCreatedOnceNeverMutated ==
    [][ IF call'.op = "create_new_kline" /\ ~ret'.raised
        THEN LET own == k_to_c'[call'.self][call'.symbol]
             IN  /\ own \in Cursors
                 /\ OneAppended(klineStore[own], klineStore'[own])
                 /\ HoldsExactly(klineStore'[own][Len(klineStore'[own])],
                                 [o |-> call'.open, h |-> call'.high, l |-> call'.low,
                                  c |-> call'.close, t |-> call'.timestamp])
                 /\ \A c \in Cursors \ {own} : klineStore'[c] = klineStore[c]
        ELSE klineStore' = klineStore ]_vars

\* a second record has been inserted into a partition that held one
C16_Witness ==
    /\ call.op = "create_new_kline"
    /\ ~ret.raised
    /\ Len(CallPartition) = 2
    /\ CallPartition[2].t = call.timestamp
    /\ CallPartition[2].h = call.high
    /\ CallPartition[2]["_id"] = ret.n

\* C17: with both bounds given, 0 included, get_asset_snapshot returns the
\* snapshots of the (platform, account) with start <= timestamp <= end, and
\* only those; a default replaces a bound only when the bound is omitted.
C17_ExplicitBoundsAreKept ==
    (call.op = "get_asset_snapshot" /\ call.start # None /\ call.end # None) =>
        {ret.value[j]["_id"] : j \in 1..Len(ret.value)} =
            {snapStore[k]["_id"] : k \in
                {m \in 1..Len(snapStore) :
                    /\ snapStore[m].platform = call.platform
                    /\ snapStore[m].account = call.account
                    /\ call.start <= snapStore[m].timestamp
                    /\ snapStore[m].timestamp <= call.end}}

\* ------------------------------------------------------------------ claims: orders without match
\* C18: update_order_infos for a (platform, order number) that no stored
\* order has creates nothing: the order collection is as it was, the count
\* returned is 0 and nothing is raised; get_order_by_no for that (platform,
\* order number), called next, returns absent.
C18_UpdateWithoutMatchCreatesNothing ==
    [][ /\ (call'.op = "update_order_infos"
              /\ NoneOf(orderStore, "p", call'.order.platform, "n", call'.order.order_no))
              => /\ orderStore' = orderStore
                 /\ ~ret'.raised
                 /\ ret'.n = 0
        /\ (call.op = "update_order_infos"
              /\ NoneOf(orderStore, "p", call.order.platform, "n", call.order.order_no)
              /\ ret.n = 0
              /\ call'.op = "get_order_by_no"
              /\ call'.platform = call.order.platform
              /\ call'.order_no = call.order.order_no)
              => (~ret'.raised /\ ret'.value = <<>>) ]_vars

\* orders are stored, and update_order_infos for another (platform, order
\* number) has returned the count 0
C18_Witness ==
    /\ call.op = "update_order_infos"
    /\ Len(orderStore) = 2
    /\ NoneOf(orderStore, "p", call.order.platform, "n", call.order.order_no)
    /\ ~ret.raised
    /\ ret.n = 0

\* ------------------------------------------------------------------ claims: partitions
\* the partition name the symbol derives: base and quote in lower case
PartitionOf ==
    (ETH_BTC :> kline_eth_btc) @@ (eth_btc :> kline_eth_btc) @@ (BTC_USD :> kline_btc_usd)

IdsOf(docs) == {docs[k]["_id"] : k \in 1..Len(docs)}

\* C19: kline partitions are isolated by the derived name.  create_new_kline
\* under S appends its record to the partition named for S and leaves every
\* other partition as it was; get_kline_between_ts and get_kline_at_ts under
\* S' return records of the partition named for S' only, so a record inserted
\* under S comes back under S' exactly when S and S' derive one name (ETH/BTC
\* and eth/btc do, ETH/BTC and BTC/USD do not).
C19_PartitionsIsolatedByName ==
    [][ (call'.op \in KlineOps /\ call'.symbol \in DOMAIN PartitionOf) =>
          LET own == Cursor(PlatformOf[call'.self], PartitionOf[call'.symbol])
              part == klineStore[own]
          IN  /\ ~ret'.raised
              /\ call'.op = "create_new_kline" =>
                    /\ OneAppended(part, klineStore'[own])
                    /\ klineStore'[own][Len(part) + 1]["_id"] = ret'.n
                    /\ \A c \in Cursors \ {own} : klineStore'[c] = klineStore[c]
              /\ call'.op = "get_kline_between_ts" =>
                    IdsOf(ret'.value) =
                        {part[k]["_id"] : k \in
                            {m \in 1..Len(part) :
                                call'.start <= part[m].t /\ part[m].t <= call'.end}}
              /\ call'.op = "get_kline_at_ts" =>
                    LET upTo == {m \in 1..Len(part) : part[m].t <= call'.ts}
                    IN  /\ IdsOf(ret'.value) \subseteq {part[m]["_id"] : m \in upTo}
                        /\ upTo # {} => Len(ret'.value) = 1 ]_vars

\* ETH/BTC and eth/btc are two cache keys of the object, each resolved once,
\* with one handle; the partition behind it and the partition of BTC/USD hold
\* one record each, and the range read under eth/btc has returned one record
C19_Witness ==
    /\ call.op = "get_kline_between_ts"
    /\ call.symbol = eth_btc
    /\ k_to_c[1][ETH_BTC] # NoCursor
    /\ k_to_c[1][eth_btc] = k_to_c[1][ETH_BTC]
    /\ resolutions[1][ETH_BTC] = 1
    /\ resolutions[1][eth_btc] = 1
    /\ Len(klineStore[Cursor("binance", kline_eth_btc)]) = 1
    /\ Len(klineStore[Cursor("binance", kline_btc_usd)]) = 1
    /\ Len(ret.value) = 1
    /\ ret.value[1]["_id"] = klineStore[Cursor("binance", kline_eth_btc)][1]["_id"]
====
